---- MODULE Spec2Model ----
(***************************************************************************)
(* API-key lifecycle and quota engine of the plant-disease backend.        *)
(*                                                                         *)
(* Blob strategy  : utils/api_key_utils.py (registry = one JSON array on   *)
(*                  Cloudinary, every operation a download / modify /      *)
(*                  upload of the whole array) behind routes/api_keys.py   *)
(*                  and routes/predict.py.                                 *)
(* Document strategy : auth/api_key_middleware.py verify_api_key with      *)
(*                  find_active_api_key and check_and_update_quota.        *)
(*                                                                         *)
(* Every request handler is a process; a handler's remote calls are the    *)
(* atomic steps, so two handlers interleave between their remote calls.    *)
(***************************************************************************)
EXTENDS Integers, Sequences, FiniteSets, TLC

\* ------------------------------------------------------------- bounds
\* raw credentials / record ids ever generated
MaxKeys == 1
\* concurrent request handlers
NProcs == 2
\* the clock runs 0..MaxTime
MaxTime == 1
\* clock ticks per calendar day
TicksPerDay == 1
\* accepted validations explored per record and day
MaxUses == 2
\* largest quota an admin sets through set_quota
MaxQuota == 1
\* creates whose generated token equals one issued before
MaxDups == 1
\* documents and tokens generated on the cached path
MaxGen == 2

\* ------------------------------------------------- program constants
DEFAULT_QUOTA_PER_DAY == 50
\* the value of the environment variable MASTER_API_KEY, as a credential
MASTER_API_KEY == 0

Procs == 1..NProcs
Raws == 1..MaxKeys
Ids == 1..(MaxKeys + MaxDups)
Times == 0..MaxTime
DayOf(t) == t \div TicksPerDay
Days == {DayOf(t) : t \in Times}

\* Python's None / an optional value
None == {}
Some(v) == {v}
TheVal(o) == CHOOSE v \in o : TRUE

\* hash_api_key: sha256 hex digest of the raw key (deterministic, injective
\* on the credentials of the model, never equal to a raw key)
hash_api_key(key) == <<"sha256", key>>

\* expires_at as the admin supplied it (an unchecked string of the request):
\* absent, an ISO timestamp with an offset, an ISO timestamp without one,
\* or text that is no timestamp
NoExpiry == [kind |-> "none", t |-> 0]
ExpiresChoices ==
    {NoExpiry, [kind |-> "aware", t |-> 0], [kind |-> "naive", t |-> 0],
     [kind |-> "bad", t |-> 0]}

\* a handler that lets the parse errors through
ExceptExceptionCatches_OnlyHTTP(exc) == exc = "HTTPException"

\* `except Exception` of track_and_get_api_key's expiry block: HTTPException
\* derives from Exception, so the handler catches it with the parse errors
ExceptExceptionCatches(exc) == exc \in {"ValueError", "TypeError", "HTTPException"}

\* what the body of the try block raises ("" when it raises nothing)
ExpiryTryRaises(expires_at, t) ==
    CASE expires_at.kind = "bad" -> "ValueError"
      [] expires_at.kind = "naive" -> "TypeError"
      [] expires_at.kind = "aware" /\ t > expires_at.t -> "HTTPException"
      [] OTHER -> ""

\* TRUE when the expiry block of track_and_get_api_key lets an exception out
ExpiryCheckRaises(expires_at, t) ==
    /\ expires_at.kind # "none"
    /\ ExpiryTryRaises(expires_at, t) # ""
    /\ ~ExceptExceptionCatches(ExpiryTryRaises(expires_at, t))

NoUsage == [d \in Days |-> None]

\* the default quota left out
NewKey_NoDefault(id, api_key_hash, permissions, quota_per_day, expires_at) ==
    [id |-> id,
     api_key_hash |-> api_key_hash,
     revoked |-> FALSE,
     revoked_at |-> None,
     last_used_at |-> None,
     permissions |-> permissions,
     quota_per_day |-> IF quota_per_day = None THEN 0 ELSE TheVal(quota_per_day),
     daily_usage |-> NoUsage,
     expires_at |-> expires_at]

\* the record store_api_key builds
NewKey(id, api_key_hash, permissions, quota_per_day, expires_at) ==
    [id |-> id,
     api_key_hash |-> api_key_hash,
     revoked |-> FALSE,
     revoked_at |-> None,
     last_used_at |-> None,
     permissions |-> permissions,
     quota_per_day |-> IF quota_per_day = None \/ quota_per_day = Some(0)
                       THEN DEFAULT_QUOTA_PER_DAY ELSE TheVal(quota_per_day),
     daily_usage |-> NoUsage,
     expires_at |-> expires_at]

\* ---------------------------------------------------------------- state
VARIABLES
    registry,   \* blob strategy: the stored JSON array (api-keys.json)
    now,        \* the clock
    nextKey,    \* credentials and ids generated so far, plus one
    pc,         \* per handler: where it stands
    op,         \* per handler: the request it serves (or served last)
    loaded,     \* per handler: the registry as download returned it
    local,      \* per handler: its in-memory api_keys list, to be uploaded
    last,       \* the request that finished last, and its response
    accepted,   \* per record id and day: validations that ended ACCEPTED
    docs,       \* document strategy: the company_api_keys collection
    data,       \* per handler: the document snapshot it works on, if any
    namesBound, \* whether `date` and `firestore` resolve in api_key_utils
    keys,       \* cached path: the api_keys collection of Firestore
    cache,      \* cached path: the Redis entries api_key:<credential>
    ret         \* cached path: what the last validation or listing returned, if anything

blobVars == <<registry, nextKey, loaded, local>>
docVars == <<docs, data, namesBound>>
mainVars == <<keys, cache, ret>>
vars == <<registry, now, nextKey, pc, op, loaded, local, last, accepted,
          docs, data, namesBound, keys, cache, ret>>

\* cached path: document ids, and the credentials there are: 0 is the
\* master key, 0..MaxKeys are values an admin can supply as custom_key_value,
\* the others are tokens secrets.token_urlsafe generated
KeyIds == 1..MaxGen
KeyVals == 0..(MaxKeys + MaxGen)

\* a request being served: the operation, the credential presented or
\* issued, the record id it names or resolved (0: none), and when it began
NoOp == [name |-> "none", cred |-> None, id |-> 0, at |-> 0]
\* a finished request and its response
Done(o, status, detail) ==
    [name |-> o.name, cred |-> o.cred, id |-> o.id, at |-> o.at,
     status |-> status, detail |-> detail]

\* a document of company_api_keys (the KeyRecord fields the middleware
\* reads, plus the rolling counter check_and_update_quota keeps)
Doc(id, revoked, quota_per_day, expires_at) ==
    [id |-> id,
     api_key_hash |-> hash_api_key(id),
     revoked |-> revoked,
     quota_per_day |-> quota_per_day,
     expires_at |-> expires_at,
     usage_today |-> 0,
     usage_last_reset |-> None,
     last_used_at |-> None]

Init ==
    /\ registry = << >>
    /\ now = 0
    /\ nextKey = 1
    /\ pc = [p \in Procs |-> "idle"]
    /\ op = [p \in Procs |-> NoOp]
    /\ loaded = [p \in Procs |-> << >>]
    /\ local = [p \in Procs |-> << >>]
    /\ last = Done(NoOp, 0, "")
    /\ accepted = [k \in Ids |-> [d \in Days |-> 0]]
    /\ docs = << >>
    /\ data = [p \in Procs |-> None]
    /\ namesBound = FALSE
    /\ keys = [i \in KeyIds |-> None]
    /\ cache = [v \in KeyVals |-> None]
    /\ ret = None

\* a failed download answered from a stale copy of the array
download_api_keys_from_cloudinary_Stale(ok) == registry

\* download_api_keys_from_cloudinary: the stored array, or [] when the
\* request fails or answers another status than 200
download_api_keys_from_cloudinary(ok) == IF ok THEN registry ELSE << >>

Tick ==
    /\ now < MaxTime
    /\ now' = now + 1
    /\ UNCHANGED <<registry, nextKey, pc, op, loaded, local, last, accepted, docVars, mainVars>>

\* a handler returns without an upload
Finish(p, o, status, detail) ==
    /\ pc' = [pc EXCEPT ![p] = "idle"]
    /\ op' = [op EXCEPT ![p] = NoOp]
    /\ loaded' = [loaded EXCEPT ![p] = << >>]
    /\ local' = [local EXCEPT ![p] = << >>]
    /\ last' = Done(o, status, detail)

\* a handler has changed its list and is about to upload it
ToUpload(p, o, api_keys, changed) ==
    /\ pc' = [pc EXCEPT ![p] = "upload"]
    /\ op' = [op EXCEPT ![p] = o]
    /\ loaded' = [loaded EXCEPT ![p] = api_keys]
    /\ local' = [local EXCEPT ![p] = changed]
    /\ UNCHANGED last

\* ------------------------------------------------ create (blob strategy)
\* routes/api_keys.py create_api_key -> generate_api_key, store_api_key up
\* to its upload: the new record is appended to the downloaded list
\* (limit: how many records the run may create)
CreateWithin(p, expires_at, ok, limit) ==
    /\ pc[p] = "idle"
    /\ nextKey <= limit
    /\ LET api_keys == download_api_keys_from_cloudinary(ok)
           new_key == NewKey(nextKey, hash_api_key(nextKey), << >>, None, expires_at)
       IN ToUpload(p, [NoOp EXCEPT !.name = "create", !.cred = Some(nextKey),
                                   !.id = nextKey, !.at = now],
                   api_keys, Append(api_keys, new_key))
    /\ nextKey' = nextKey + 1
    /\ UNCHANGED <<registry, now, accepted, docVars, mainVars>>

CreateLoad(p, expires_at, ok) == CreateWithin(p, expires_at, ok, MaxKeys)

\* create_api_key when generate_api_key (secrets.token_hex, drawn without
\* looking at the registry) returns the token of credential k again:
\* store_api_key appends the record under a new id without any test
CreateSameLoad(p, k, ok) ==
    /\ pc[p] = "idle"
    /\ nextKey <= MaxKeys + MaxDups
    /\ k < nextKey
    /\ LET api_keys == download_api_keys_from_cloudinary(ok)
           new_key == NewKey(nextKey, hash_api_key(k), << >>, None, NoExpiry)
       IN ToUpload(p, [NoOp EXCEPT !.name = "create", !.cred = Some(k),
                                   !.id = nextKey, !.at = now],
                   api_keys, Append(api_keys, new_key))
    /\ nextKey' = nextKey + 1
    /\ UNCHANGED <<registry, now, accepted, docVars, mainVars>>

\* ------------------------------------------------ revoke (blob strategy)
\* the flag flipped instead of set
revoke_keys_Toggle(api_keys, key_id) ==
    [i \in 1..Len(api_keys) |->
        IF api_keys[i].id = key_id
        THEN [api_keys[i] EXCEPT !.revoked = ~api_keys[i].revoked]
        ELSE api_keys[i]]

\* revoke_api_key, lines 137-140: every record with that id is flagged
revoke_keys(api_keys, key_id) ==
    [i \in 1..Len(api_keys) |->
        IF api_keys[i].id = key_id THEN [api_keys[i] EXCEPT !.revoked = TRUE]
        ELSE api_keys[i]]

HasId(api_keys, key_id) == \E i \in 1..Len(api_keys) : api_keys[i].id = key_id

\* routes/api_keys.py revoke_key -> revoke_api_key up to its upload
RevokeLoad(p, key_id, ok) ==
    /\ pc[p] = "idle"
    /\ LET api_keys == download_api_keys_from_cloudinary(ok)
           o == [NoOp EXCEPT !.name = "revoke", !.id = key_id, !.at = now]
       IN IF HasId(api_keys, key_id)
          THEN ToUpload(p, o, api_keys, revoke_keys(api_keys, key_id))
          ELSE Finish(p, o, 404, "API key not found")
    /\ UNCHANGED <<registry, now, nextKey, accepted, docVars, mainVars>>

\* ------------------------------------------ update quota (blob strategy)
quota_keys(api_keys, key_id, new_quota) ==
    [i \in 1..Len(api_keys) |->
        IF api_keys[i].id = key_id THEN [api_keys[i] EXCEPT !.quota_per_day = new_quota]
        ELSE api_keys[i]]

\* routes/api_keys.py set_quota -> update_quota up to its upload
QuotaLoad(p, key_id, quota, ok) ==
    /\ pc[p] = "idle"
    /\ LET o == [NoOp EXCEPT !.name = "quota", !.id = key_id, !.at = now]
       IN IF quota = None
          THEN /\ Finish(p, o, 400, "Missing id or quota_per_day")
               /\ ok
          ELSE LET api_keys == download_api_keys_from_cloudinary(ok)
               IN IF HasId(api_keys, key_id)
                  THEN ToUpload(p, o, api_keys, quota_keys(api_keys, key_id, TheVal(quota)))
                  ELSE Finish(p, o, 404, "API key not found")
    /\ UNCHANGED <<registry, now, nextKey, accepted, docVars, mainVars>>

\* ------------------------------------- validation (blob strategy)
\* every credential resolved to the first record
FirstMatch_Any(api_keys, hashed_key) == IF Len(api_keys) > 0 THEN 1 ELSE 0

\* index of the first record whose api_key_hash is hashed_key, 0 if none
FirstMatch(api_keys, hashed_key) ==
    IF \E i \in 1..Len(api_keys) : api_keys[i].api_key_hash = hashed_key
    THEN CHOOSE i \in 1..Len(api_keys) :
            /\ api_keys[i].api_key_hash = hashed_key
            /\ \A j \in 1..(i - 1) : api_keys[j].api_key_hash # hashed_key
    ELSE 0

\* the counter incremented twice
use_today_Twice(daily_usage, today_str, now_iso) ==
    LET entry == IF daily_usage[today_str] = None
                 THEN [count |-> 0, last_used |-> None]
                 ELSE TheVal(daily_usage[today_str])
    IN [daily_usage EXCEPT ![today_str] =
            Some([entry EXCEPT !.count = entry.count + 2, !.last_used = Some(now_iso)])]

\* today's entry re-created on every call
use_today_Fresh(daily_usage, today_str, now_iso) ==
    [daily_usage EXCEPT ![today_str] = Some([count |-> 1, last_used |-> Some(now_iso)])]

\* daily_usage after lines 225-232: today's entry is created with count 0
\* when missing, then count += 1 and last_used = now_iso
use_today(daily_usage, today_str, now_iso) ==
    LET entry == IF daily_usage[today_str] = None
                 THEN [count |-> 0, last_used |-> None]
                 ELSE TheVal(daily_usage[today_str])
    IN [daily_usage EXCEPT ![today_str] =
            Some([entry EXCEPT !.count = entry.count + 1, !.last_used = Some(now_iso)])]

\* the update of last_used_at left out
track_key_NoTouch(key, t) ==
    [key EXCEPT !.daily_usage = use_today(key.daily_usage, DayOf(t), t)]

\* key_to_update after lines 222-233
track_key(key, t) ==
    [key EXCEPT !.daily_usage = use_today(key.daily_usage, DayOf(t), t),
                !.last_used_at = Some(t)]

\* today's count of a record (0 when the day has no entry)
CountOn(key, d) ==
    IF key.daily_usage[d] = None THEN 0 ELSE TheVal(key.daily_usage[d]).count

\* the revocation test left out
IsRevoked_Skipped(key) == FALSE

\* line 202: key.get("revoked")
IsRevoked(key) == key.revoked

\* the presence test left out: an absent credential is looked up like any
\* other and matches nothing
TrackLoad_NoPresenceTest(p, api_key, ok) ==
    /\ pc[p] = "idle"
    /\ LET o == [NoOp EXCEPT !.name = "track", !.cred = api_key, !.at = now]
       IN IF api_key = None
          THEN Finish(p, o, 403, "Invalid API Key.")
          ELSE LET api_keys == download_api_keys_from_cloudinary(ok)
                   i == FirstMatch(api_keys, hash_api_key(TheVal(api_key)))
                   oi == [o EXCEPT !.id = api_keys[i].id]
               IN IF i = 0
                  THEN Finish(p, o, 403, "Invalid API Key.")
                  ELSE IF IsRevoked(api_keys[i])
                  THEN Finish(p, oi, 403, "API key has been revoked.")
                  ELSE IF ExpiryCheckRaises(api_keys[i].expires_at, now)
                  THEN Finish(p, oi, 403, "API key has expired.")
                  ELSE /\ accepted[api_keys[i].id][DayOf(now)] < MaxUses
                       /\ ToUpload(p, oi, api_keys,
                                   [api_keys EXCEPT ![i] = track_key(api_keys[i], now)])
    /\ UNCHANGED <<registry, now, nextKey, accepted, docVars, mainVars>>

\* routes/predict.py predict_route -> track_and_get_api_key up to its upload
TrackLoad(p, api_key, ok) ==
    /\ pc[p] = "idle"
    /\ LET o == [NoOp EXCEPT !.name = "track", !.cred = api_key, !.at = now]
       IN IF api_key = None
          THEN Finish(p, o, 401, "Missing API Key")
          ELSE LET api_keys == download_api_keys_from_cloudinary(ok)
                   i == FirstMatch(api_keys, hash_api_key(TheVal(api_key)))
                   oi == [o EXCEPT !.id = api_keys[i].id]
               IN IF i = 0
                  THEN Finish(p, o, 403, "Invalid API Key.")
                  ELSE IF IsRevoked(api_keys[i])
                  THEN Finish(p, oi, 403, "API key has been revoked.")
                  ELSE IF ExpiryCheckRaises(api_keys[i].expires_at, now)
                  THEN Finish(p, oi, 403, "API key has expired.")
                  ELSE /\ accepted[api_keys[i].id][DayOf(now)] < MaxUses
                       /\ ToUpload(p, oi, api_keys,
                                   [api_keys EXCEPT ![i] = track_key(api_keys[i], now)])
    /\ UNCHANGED <<registry, now, nextKey, accepted, docVars, mainVars>>

\* ------------------------------------------------------- the upload step
\* upload_api_keys_to_cloudinary succeeds: the stored array is replaced by
\* the handler's list, and the handler answers
Upload(p) ==
    /\ pc[p] = "upload"
    /\ registry' = local[p]
    /\ Finish(p, op[p], 200, "ok")
    /\ accepted' = IF op[p].name = "track"
                   THEN [accepted EXCEPT ![op[p].id][DayOf(op[p].at)] = @ + 1]
                   ELSE accepted
    /\ UNCHANGED <<now, nextKey, docVars, mainVars>>

\* upload_api_keys_to_cloudinary raises: nothing is stored, the handler
\* answers 500 (predict_route's `except Exception`, FastAPI's default for
\* the admin routes)
UploadFails(p) ==
    /\ pc[p] = "upload"
    /\ Finish(p, op[p], 500, "Failed to upload API keys to Cloudinary")
    /\ UNCHANGED <<registry, now, nextKey, accepted, docVars, mainVars>>

\* the credential of a request: absent (or empty), one that was never
\* issued (0), or an issued one
OptRaws == {None} \cup {Some(k) : k \in 0..MaxKeys}
OptQuotas == {None} \cup {Some(q) : q \in 0..MaxQuota}

\* ---------------------------------------- validation (document strategy)
\* auth/api_key_middleware.py verify_api_key.  Its remote calls are the
\* query of find_active_api_key, the two updates of check_and_update_quota
\* and the update of last_used_at; each step below is one remote call and
\* the local code that follows it up to the next one.

\* find_active_api_key: the documents the query can return (limit 1)
find_active_api_key(api_key_hash) ==
    {k \in DOMAIN docs : docs[k].api_key_hash = api_key_hash /\ ~docs[k].revoked}

\* data.get("quota_per_day", DEFAULT_QUOTA_PER_DAY)
QuotaOf(d) ==
    IF d.quota_per_day = None THEN DEFAULT_QUOTA_PER_DAY ELSE TheVal(d.quota_per_day)

\* check_and_update_quota, line 164: the snapshot's reset day is not today
NeedsReset(d, today) == d.usage_last_reset # Some(today)

\* check_and_update_quota, line 169, on the handler's snapshot
QuotaReached(d) == d.usage_today >= QuotaOf(d)

DocFinish(p, o, status, detail) ==
    /\ Finish(p, o, status, detail)
    /\ data' = [data EXCEPT ![p] = None]

DocGoto(p, where, o, d) ==
    /\ pc' = [pc EXCEPT ![p] = where]
    /\ op' = [op EXCEPT ![p] = o]
    /\ data' = [data EXCEPT ![p] = Some(d)]
    /\ UNCHANGED <<last, loaded, local>>

\* lines 9-16 of verify_api_key, then check_and_update_quota up to its
\* first remote call (lines 160-164, or 160-172 when no reset is due)
DocFind(p, key) ==
    /\ pc[p] = "idle"
    /\ DOMAIN docs # {}
    /\ LET o == [NoOp EXCEPT !.name = "verify", !.cred = key, !.at = now]
           found == find_active_api_key(hash_api_key(TheVal(key)))
       IN IF key = None
          THEN DocFinish(p, o, 401, "Missing API Key")
          ELSE IF found = {}
          THEN DocFinish(p, o, 403, "Invalid or revoked API key")
          ELSE \E k \in found :
                 LET oi == [o EXCEPT !.id = docs[k].id]
                 IN IF ~namesBound
                    THEN DocFinish(p, oi, 500, "NameError")
                    ELSE IF NeedsReset(docs[k], DayOf(now))
                    THEN DocGoto(p, "reset", oi, docs[k])
                    ELSE IF QuotaReached(docs[k])
                    THEN DocFinish(p, oi, 429, "API quota exceeded for today")
                    ELSE /\ accepted[docs[k].id][DayOf(now)] < MaxUses
                         /\ DocGoto(p, "incr", oi, docs[k])
    /\ UNCHANGED <<now, accepted, docs, namesBound, blobVars, mainVars>>

\* line 165: the counter and the reset day are overwritten in the store;
\* lines 166-170 then judge the handler's own copy
DocReset(p) ==
    /\ pc[p] = "reset"
    /\ LET today == DayOf(op[p].at)
           d == [TheVal(data[p]) EXCEPT !.usage_today = 0, !.usage_last_reset = Some(today)]
       IN /\ docs' = [docs EXCEPT ![op[p].id].usage_today = 0,
                                  ![op[p].id].usage_last_reset = Some(today)]
          /\ IF QuotaReached(d)
             THEN DocFinish(p, op[p], 429, "API quota exceeded for today")
             ELSE DocGoto(p, "incr", op[p], d)
    /\ UNCHANGED <<now, accepted, namesBound, blobVars, mainVars>>

\* line 172: firestore.Increment(1), applied by the server to the stored
\* counter whatever the handler's copy says
DocIncr(p) ==
    /\ pc[p] = "incr"
    /\ docs' = [docs EXCEPT ![op[p].id].usage_today = @ + 1]
    /\ DocGoto(p, "touch", op[p], TheVal(data[p]))
    /\ UNCHANGED <<now, accepted, namesBound, blobVars, mainVars>>

\* verify_api_key lines 21-25: last_used_at is written and the document
\* is returned to the route
DocTouch(p) ==
    /\ pc[p] = "touch"
    /\ docs' = [docs EXCEPT ![op[p].id].last_used_at = Some(now)]
    /\ DocFinish(p, op[p], 200, "ok")
    /\ accepted' = [accepted EXCEPT ![op[p].id][DayOf(op[p].at)] = @ + 1]
    /\ UNCHANGED <<now, namesBound, blobVars, mainVars>>

\* ------------------------------------------------ cached path (main.py)
\* Firestore collection api_keys with the Redis read-through cache.  Each
\* step below is one remote call (Firestore or Redis) and the local code
\* that follows it up to the next one.

\* a document of api_keys, and the key_data verify_api_key caches and returns
KeyDoc(key, rate_limit_day, is_active) ==
    [key |-> key, rate_limit_day |-> rate_limit_day, is_active |-> is_active]
KeyData(key_id, doc) ==
    [key_id |-> key_id, key |-> doc.key, rate_limit_day |-> doc.rate_limit_day,
     is_active |-> doc.is_active]

\* the body of PATCH /api-keys/{key_id}, its allowed fields
NoUpdates == [is_active |-> None, rate_limit_day |-> None]
RateLimits == 1..(MaxQuota + 1)
UpdateChoices ==
    {NoUpdates} \cup {[NoUpdates EXCEPT !.is_active = Some(b)] : b \in BOOLEAN}
                \cup {[NoUpdates EXCEPT !.rate_limit_day = Some(r)] : r \in RateLimits}

\* a handler goes on to its next remote call, holding dat
MainGoto(p, where, o, dat) ==
    /\ pc' = [pc EXCEPT ![p] = where]
    /\ op' = [op EXCEPT ![p] = o]
    /\ data' = [data EXCEPT ![p] = dat]
    /\ UNCHANGED <<last, loaded, local>>

\* secrets.token_urlsafe(32): the n-th token generated
Token(n) == MaxKeys + n

\* create_api_key, lines 452-493: one document is set, whatever the
\* collection holds; the key is custom_key_value when given
MainCreate(p, custom_key_value, rate_limit_day) ==
    /\ pc[p] = "idle"
    /\ nextKey <= MaxGen
    /\ LET key == IF custom_key_value # None THEN TheVal(custom_key_value)
                  ELSE Token(nextKey)
           o == [NoOp EXCEPT !.name = "mcreate", !.cred = Some(key),
                             !.id = nextKey, !.at = now]
       IN /\ keys' = [keys EXCEPT ![nextKey] = Some(KeyDoc(key, rate_limit_day, TRUE))]
          /\ DocFinish(p, o, 200, "ok")
    /\ nextKey' = nextKey + 1
    /\ UNCHANGED <<registry, now, accepted, docs, namesBound, cache, ret>>

\* the record verify_api_key returns for the master key (line 215)
MasterRecord == [partner_id |-> "admin", rate_limit_day |-> 10000]

\* the master key looked up like any other credential
MainVerify_NoMaster(p, credential) ==
    /\ pc[p] = "idle"
    /\ LET o == [NoOp EXCEPT !.name = "mverify", !.cred = Some(credential), !.at = now]
       IN IF cache[credential] # None
          THEN /\ DocFinish(p, [o EXCEPT !.id = TheVal(cache[credential]).key_id],
                            200, "ok")
               /\ ret' = cache[credential]
          ELSE /\ MainGoto(p, "mquery", o, None)
               /\ UNCHANGED ret
    /\ UNCHANGED <<registry, now, nextKey, accepted, docs, namesBound, keys, cache>>

\* verify_api_key, lines 213-224: the master key is answered with a
\* synthetic record; otherwise the cache lookup, and a hit is returned
MainVerify(p, credential) ==
    /\ pc[p] = "idle"
    /\ LET o == [NoOp EXCEPT !.name = "mverify", !.cred = Some(credential), !.at = now]
       IN IF credential = MASTER_API_KEY
          THEN /\ DocFinish(p, o, 200, "ok")
               /\ ret' = Some(MasterRecord)
          ELSE IF cache[credential] # None
          THEN /\ DocFinish(p, [o EXCEPT !.id = TheVal(cache[credential]).key_id],
                            200, "ok")
               /\ ret' = cache[credential]
          ELSE /\ MainGoto(p, "mquery", o, None)
               /\ UNCHANGED ret
    /\ UNCHANGED <<registry, now, nextKey, accepted, docs, namesBound, keys, cache>>

\* the documents the query of lines 228-229 can return (limit 1)
ActiveKeys(credential) ==
    {i \in KeyIds : keys[i] # None /\ TheVal(keys[i]).key = credential
                                   /\ TheVal(keys[i]).is_active}

\* verify_api_key, lines 227-235 and 246-250: the Firestore query
MainQuery(p) ==
    /\ pc[p] = "mquery"
    /\ LET found == ActiveKeys(TheVal(op[p].cred))
       IN IF found = {}
          THEN /\ DocFinish(p, op[p], 401, "Invalid API Key")
               /\ ret' = None
          ELSE /\ \E i \in found :
                    MainGoto(p, "msetex", [op[p] EXCEPT !.id = i],
                             Some(KeyData(i, TheVal(keys[i]))))
               /\ UNCHANGED ret
    /\ UNCHANGED <<registry, now, nextKey, accepted, docs, namesBound, keys, cache>>

\* verify_api_key, lines 236-243: the result is cached and returned
MainSetex(p) ==
    /\ pc[p] = "msetex"
    /\ cache' = [cache EXCEPT ![TheVal(op[p].cred)] = data[p]]
    /\ ret' = data[p]
    /\ DocFinish(p, op[p], 200, "ok")
    /\ UNCHANGED <<registry, now, nextKey, accepted, docs, namesBound, keys>>

\* the 5 minute lifetime of a cache entry ends
CacheExpire(credential) ==
    /\ cache[credential] # None
    /\ cache' = [cache EXCEPT ![credential] = None]
    /\ UNCHANGED <<registry, now, nextKey, pc, op, loaded, local, last, accepted,
                   docVars, keys, ret>>

\* the response model of GET /api-keys, built from a document and its id
APIKey(id, key_data) ==
    [id |-> id, key |-> key_data.key, rate_limit_day |-> key_data.rate_limit_day,
     is_active |-> key_data.is_active]

\* list_api_keys, lines 495-523: every document of the collection is
\* returned as an APIKey
MainList(p) ==
    /\ pc[p] = "idle"
    /\ DocFinish(p, [NoOp EXCEPT !.name = "mlist", !.at = now], 200, "ok")
    /\ ret' = Some([items |-> {APIKey(i, TheVal(keys[i])) :
                                i \in {j \in KeyIds : keys[j] # None}}])
    /\ UNCHANGED <<registry, now, nextKey, accepted, docs, namesBound, keys, cache>>

\* update_api_key, lines 566-579: the allowed fields, then doc_ref.get()
MainUpdateGet(p, key_id, updates) ==
    /\ pc[p] = "idle"
    /\ LET o == [NoOp EXCEPT !.name = "mupdate", !.id = key_id, !.at = now]
       IN IF updates = NoUpdates
          THEN DocFinish(p, o, 400, "No valid fields to update")
          ELSE IF keys[key_id] = None
          THEN DocFinish(p, o, 404, "API key not found")
          ELSE MainGoto(p, "mupdate", o,
                        Some([doc |-> TheVal(keys[key_id]), updates |-> updates]))
    /\ UNCHANGED <<registry, now, nextKey, accepted, docs, namesBound, mainVars>>

\* the document after doc_ref.update(allowed_updates)
Updated(doc, updates) ==
    [doc EXCEPT !.is_active = IF updates.is_active = None THEN @
                              ELSE TheVal(updates.is_active),
                !.rate_limit_day = IF updates.rate_limit_day = None THEN @
                                   ELSE TheVal(updates.rate_limit_day)]

\* line 585 `if "is_active" in allowed_updates`: the cache entry is
\* cleared only then
ClearsCache(updates) == updates.is_active # None

\* update_api_key, lines 582-597: doc_ref.update, which raises when the
\* document is gone
MainUpdateDoc(p) ==
    /\ pc[p] = "mupdate"
    /\ LET id == op[p].id
           updates == TheVal(data[p]).updates
       IN IF keys[id] = None
          THEN /\ DocFinish(p, op[p], 500, "Failed to update API key")
               /\ UNCHANGED keys
          ELSE /\ keys' = [keys EXCEPT ![id] = Some(Updated(TheVal(keys[id]), updates))]
               /\ IF ClearsCache(updates)
                  THEN MainGoto(p, "mclear", op[p], data[p])
                  ELSE DocFinish(p, op[p], 200, "API key updated successfully")
    /\ UNCHANGED <<registry, now, nextKey, accepted, docs, namesBound, cache, ret>>

\* redis_client.delete of the key the handler read (lines 595, 675), and
\* the answer of the request
MainClear(p) ==
    /\ pc[p] = "mclear"
    /\ cache' = [cache EXCEPT ![TheVal(data[p]).doc.key] = None]
    /\ DocFinish(p, op[p], 200, "ok")
    /\ UNCHANGED <<registry, now, nextKey, accepted, docs, namesBound, keys, ret>>

\* delete_api_key, lines 617-625: doc_ref.get()
MainDeleteGet(p, key_id) ==
    /\ pc[p] = "idle"
    /\ LET o == [NoOp EXCEPT !.name = "mdelete", !.id = key_id, !.at = now]
       IN IF keys[key_id] = None
          THEN DocFinish(p, o, 404, "API key not found")
          ELSE MainGoto(p, "mdelete", o,
                        Some([doc |-> TheVal(keys[key_id]), updates |-> NoUpdates]))
    /\ UNCHANGED <<registry, now, nextKey, accepted, docs, namesBound, mainVars>>

\* delete_api_key, line 628: doc_ref.delete(), which succeeds whether or
\* not the document is still there; the cache entry is cleared next
MainDeleteDoc(p) ==
    /\ pc[p] = "mdelete"
    /\ keys' = [keys EXCEPT ![op[p].id] = None]
    /\ MainGoto(p, "mclear", op[p], data[p])
    /\ UNCHANGED <<registry, now, nextKey, accepted, docs, namesBound, cache, ret>>

\* regenerate_api_key, lines 658-667: doc_ref.get()
MainRegenGet(p, key_id) ==
    /\ pc[p] = "idle"
    /\ nextKey <= MaxGen
    /\ LET o == [NoOp EXCEPT !.name = "mregen", !.id = key_id, !.at = now]
       IN IF keys[key_id] = None
          THEN DocFinish(p, o, 404, "API key not found")
          ELSE MainGoto(p, "mregen", o,
                        Some([doc |-> TheVal(keys[key_id]), updates |-> NoUpdates]))
    /\ UNCHANGED <<registry, now, nextKey, accepted, docs, namesBound, mainVars>>

\* regenerate_api_key, lines 670-671: a new token is written to the document
MainRegenDoc(p) ==
    /\ pc[p] = "mregen"
    /\ nextKey <= MaxGen
    /\ LET id == op[p].id
       IN IF keys[id] = None
          THEN /\ DocFinish(p, op[p], 500, "Failed to regenerate API key")
               /\ UNCHANGED <<keys, nextKey>>
          ELSE /\ keys' = [keys EXCEPT ![id] =
                               Some([TheVal(keys[id]) EXCEPT !.key = Token(nextKey)])]
               /\ nextKey' = nextKey + 1
               /\ MainGoto(p, "mclear", [op[p] EXCEPT !.cred = Some(Token(nextKey))],
                           data[p])
    /\ UNCHANGED <<registry, now, accepted, docs, namesBound, cache, ret>>

\* ------------------------------------------------------ specifications
Idle == \A p \in Procs : pc[p] = "idle"

\* the requests, served by a reachable store
Create == \E p \in Procs, e \in ExpiresChoices : CreateLoad(p, e, TRUE)
Revoke == \E p \in Procs, k \in Raws : RevokeLoad(p, k, TRUE)
SetQuota == \E p \in Procs, k \in Raws, q \in OptQuotas : QuotaLoad(p, k, q, TRUE)
Track == \E p \in Procs, c \in OptRaws : TrackLoad(p, c, TRUE)
Store == \E p \in Procs : Upload(p)

\* one request at a time: a request starts when no other is in flight
SeqCreate == Idle /\ Create
SeqRevoke == Idle /\ Revoke
SeqSetQuota == Idle /\ SetQuota
SeqTrack == Idle /\ Track
NextSeq == SeqCreate \/ SeqRevoke \/ SeqSetQuota \/ SeqTrack \/ Store \/ Tick
SpecSeq == Init /\ [][NextSeq]_vars

\* one request at a time, against a store whose download or upload may fail
FailCreate == Idle /\ \E p \in Procs : CreateLoad(p, NoExpiry, FALSE)
FailRevoke == Idle /\ \E p \in Procs, k \in Raws : RevokeLoad(p, k, FALSE)
FailSetQuota == Idle /\ \E p \in Procs, k \in Raws, q \in OptQuotas : QuotaLoad(p, k, q, FALSE)
FailTrack == Idle /\ \E p \in Procs, c \in OptRaws : TrackLoad(p, c, FALSE)
FailStore == \E p \in Procs : UploadFails(p)
NextFault ==
    \/ SeqCreate \/ SeqRevoke \/ SeqSetQuota \/ SeqTrack \/ Store \/ Tick
    \/ FailCreate \/ FailRevoke \/ FailSetQuota \/ FailTrack \/ FailStore
SpecFault == Init /\ [][NextFault]_vars

\* concurrent handlers on one calendar day, keys without expiry
CreatePlain == \E p \in Procs : CreateLoad(p, NoExpiry, TRUE)
Next == CreatePlain \/ Revoke \/ SetQuota \/ Track \/ Store
Spec == Init /\ [][Next]_vars

\* one request at a time, token collisions included
SeqCreateSame == Idle /\ \E p \in Procs, k \in Raws : CreateSameLoad(p, k, TRUE)
SeqRevokeAny == Idle /\ \E p \in Procs, id \in Ids : RevokeLoad(p, id, TRUE)
NextDup == SeqCreate \/ SeqCreateSame \/ SeqRevokeAny \/ SeqTrack \/ Store \/ Tick
SpecDup == Init /\ [][NextDup]_vars

\* two records: creates and validations by concurrent handlers, a
\* download may fail
MaxRecords == 2
CreateAny == \E p \in Procs, ok \in BOOLEAN : CreateWithin(p, NoExpiry, ok, MaxRecords)
TrackAny == \E p \in Procs, c \in OptRaws, ok \in BOOLEAN : TrackLoad(p, c, ok)
NextTwo == CreateAny \/ TrackAny \/ Store
SpecTwo == Init /\ [][NextTwo]_vars

\* the cached path, one request at a time
OptCustom == {None} \cup {Some(k) : k \in 0..MaxKeys}
MCreate == Idle /\ \E p \in Procs, c \in OptCustom, r \in RateLimits : MainCreate(p, c, r)
MVerify == Idle /\ \E p \in Procs, c \in KeyVals : MainVerify(p, c)
MUpdate == Idle /\ \E p \in Procs, i \in KeyIds, u \in UpdateChoices : MainUpdateGet(p, i, u)
MRegen == Idle /\ \E p \in Procs, i \in KeyIds : MainRegenGet(p, i)
MQuery == \E p \in Procs : MainQuery(p)
MSetex == \E p \in Procs : MainSetex(p)
MUpdateDoc == \E p \in Procs : MainUpdateDoc(p)
MRegenDoc == \E p \in Procs : MainRegenDoc(p)
MClear == \E p \in Procs : MainClear(p)
MExpire == \E c \in KeyVals : CacheExpire(c)
NextMainSeq ==
    \/ MCreate \/ MVerify \/ MUpdate \/ MRegen
    \/ MQuery \/ MSetex \/ MUpdateDoc \/ MRegenDoc \/ MClear \/ MExpire
SpecMainSeq == Init /\ [][NextMainSeq]_vars

\* the administration of the cached path, one request at a time
MList == Idle /\ \E p \in Procs : MainList(p)
NextAdmin == MCreate \/ MUpdate \/ MUpdateDoc \/ MClear \/ MList
SpecAdmin == Init /\ [][NextAdmin]_vars

\* the cached path, concurrent handlers: generated keys with one rate
\* limit, revocations (is_active = false), regenerations and validations
Revocation == [NoUpdates EXCEPT !.is_active = Some(FALSE)]
CCreate == \E p \in Procs : MainCreate(p, None, 1)
CVerify == \E p \in Procs, c \in KeyVals : MainVerify(p, c)
CRevoke == \E p \in Procs, i \in KeyIds : MainUpdateGet(p, i, Revocation)
CRegen == \E p \in Procs, i \in KeyIds : MainRegenGet(p, i)
NextMain ==
    \/ CCreate \/ CVerify \/ CRevoke \/ CRegen
    \/ MQuery \/ MSetex \/ MUpdateDoc \/ MRegenDoc \/ MClear \/ MExpire
SpecMain == Init /\ [][NextMain]_vars

\* the cached path, concurrent handlers: generated keys, revocations,
\* deletions and validations
CDelete == \E p \in Procs, i \in KeyIds : MainDeleteGet(p, i)
MDeleteDoc == \E p \in Procs : MainDeleteDoc(p)
NextRevoke ==
    \/ CCreate \/ CVerify \/ CRevoke \/ CDelete
    \/ MQuery \/ MSetex \/ MUpdateDoc \/ MDeleteDoc \/ MClear \/ MExpire
SpecRevoke == Init /\ [][NextRevoke]_vars

\* the document strategy: the collection holds one document per credential
\* (nothing in the program writes or validates quota_per_day of a document,
\* so 0 is among the values a document can hold)
DocQuotas == {None} \cup {Some(q) : q \in 0..MaxQuota}
InitDoc ==
    /\ registry = << >>
    /\ now = 0
    /\ nextKey = 1
    /\ pc = [p \in Procs |-> "idle"]
    /\ op = [p \in Procs |-> NoOp]
    /\ loaded = [p \in Procs |-> << >>]
    /\ local = [p \in Procs |-> << >>]
    /\ last = Done(NoOp, 0, "")
    /\ accepted = [k \in Ids |-> [d \in Days |-> 0]]
    /\ \E revoked \in [Raws -> BOOLEAN], quota \in [Raws -> DocQuotas],
          expires \in [Raws -> {NoExpiry, [kind |-> "aware", t |-> 0]}] :
          docs = [k \in Raws |-> Doc(k, revoked[k], quota[k], expires[k])]
    /\ data = [p \in Procs |-> None]
    /\ namesBound \in BOOLEAN
    /\ keys = [i \in KeyIds |-> None]
    /\ cache = [v \in KeyVals |-> None]
    /\ ret = None

Verify == \E p \in Procs, c \in OptRaws : DocFind(p, c)
Reset == \E p \in Procs : DocReset(p)
Incr == \E p \in Procs : DocIncr(p)
Touch == \E p \in Procs : DocTouch(p)
NextDoc == Verify \/ Reset \/ Incr \/ Touch \/ Tick
SpecDoc == InitDoc /\ [][NextDoc]_vars

\* ------------------------------------------------------------ properties
\* the stored record of credential k (0: none), and of the last request
StoredOf(k) == FirstMatch(registry, hash_api_key(k))
LastRec == registry[CHOOSE i \in 1..Len(registry) : registry[i].id = last.id]
Accepted(name) == last.name = name /\ last.status = 200
\* expires_at is a well-formed timestamp that lies before t
PastExpiry(expires_at, t) == expires_at.kind = "aware" /\ t > expires_at.t

\* C1: with quota_per_day = q >= 1, sequential validations on one day are
\* accepted while the day's count is below q and the next one is rejected
\* with 429: an accepted validation never leaves the day's count above q.
C1_QuotaBoundary ==
    (Accepted("track") /\ HasId(registry, last.id) /\ LastRec.quota_per_day >= 1)
        => CountOn(LastRec, DayOf(last.at)) <= LastRec.quota_per_day

\* C2: for every stored record and date, count <= quota_per_day, unless
\* updateQuota lowers the quota: no step that keeps or raises a record's
\* quota takes its count from within the quota to above it.
C2_CountWithinQuota ==
    [][\A i \in 1..Len(registry), j \in 1..Len(registry'), d \in Days :
          (/\ registry[i].id = registry'[j].id
           /\ registry[i].quota_per_day >= 1
           /\ registry'[j].quota_per_day >= registry[i].quota_per_day
           /\ CountOn(registry[i], d) <= registry[i].quota_per_day)
          => CountOn(registry'[j], d) <= registry'[j].quota_per_day]_vars

\* a validation of credential k answers in this step
Answers(k) == last' # last /\ last'.name = "track" /\ last'.cred = Some(k)
\* a validation of credential k passes the gate's checks in this step
Passes(k) ==
    \E p \in Procs : /\ pc[p] = "idle" /\ pc'[p] = "upload"
                     /\ op'[p].name = "track" /\ op'[p].cred = Some(k)
RevokedStored(k) == StoredOf(k) # 0 /\ registry[StoredOf(k)].revoked

\* C3: requests served one at a time.  Once the stored record of a
\* credential is revoked it stays revoked, and every validation presenting
\* the credential is answered 403 "revoked", never passes the gate, and
\* leaves the registry (usage counters, last_used_at) and the count of
\* accepted validations as they were.
C3_RevokedRejected ==
    [][\A k \in Raws : RevokedStored(k) =>
          /\ RevokedStored(k)'
          /\ ~Passes(k)
          /\ Answers(k) => /\ last'.status = 403
                           /\ last'.detail = "API key has been revoked."
                           /\ registry' = registry
                           /\ accepted' = accepted]_vars

\* C3 witness: a revoked key with quota left was presented and rejected
C3_Witness ==
    /\ last.name = "track" /\ last.status = 403
    /\ last.detail = "API key has been revoked."
    /\ HasId(registry, last.id)
    /\ LastRec.revoked
    /\ CountOn(LastRec, DayOf(last.at)) < LastRec.quota_per_day

\* C4: a validation of a non-revoked key whose expires_at is a well-formed
\* timestamp in the past is rejected (403) and records no usage: no
\* accepted validation resolved a record that had expired when it began.
C4_ExpiredRejected ==
    (Accepted("track") /\ HasId(registry, last.id))
        => ~PastExpiry(LastRec.expires_at, last.at)

\* C5: the revoked flag of a stored record only goes false -> true, under
\* any interleaving of the handlers.
C5_RevokedMonotonic ==
    [][\A i \in 1..Len(registry) : registry[i].revoked =>
          \A j \in 1..Len(registry') :
              registry'[j].id = registry[i].id => registry'[j].revoked]_vars

Persists(p) == pc[p] = "upload" /\ op[p].name = "track" /\ pc'[p] = "idle"

\* C7: blob strategy, concurrent handlers.  A validation that passed the
\* gate's checks is ACCEPTED and stores the count it loaded plus one,
\* whatever the registry holds by then (the last upload wins), so two
\* validations that loaded count N both store N + 1.
C7_LastSaveWins ==
    [][\A p \in Procs : Persists(p) =>
          LET k == TheVal(op[p].cred)
              d == DayOf(op[p].at)
              was == loaded[p][FirstMatch(loaded[p], hash_api_key(k))]
          IN /\ last'.name = "track" /\ last'.status = 200
             /\ FirstMatch(registry', hash_api_key(k)) # 0
             /\ CountOn(registry'[FirstMatch(registry', hash_api_key(k))], d)
                    = CountOn(was, d) + 1
             /\ accepted'[op[p].id][d] = accepted[op[p].id][d] + 1]_vars

\* C7 witness: two validations of one key were ACCEPTED and the stored
\* count of the day is 1 (the record is otherwise as create stored it)
C7_Witness ==
    /\ Idle
    /\ Accepted("track")
    /\ HasId(registry, last.id)
    /\ LastRec.quota_per_day = DEFAULT_QUOTA_PER_DAY
    /\ ~LastRec.revoked
    /\ accepted[last.id][DayOf(last.at)] = 2
    /\ CountOn(LastRec, DayOf(last.at)) = 1

\* C8: requests served one at a time.  Every validation presenting the
\* credential of a stored, non-revoked record is ACCEPTED, and for every
\* stored record and day the count equals the number of validations of
\* that record that were ACCEPTED on that day.
C8_RoundTrip ==
    /\ [](\A i \in 1..Len(registry), d \in Days :
            CountOn(registry[i], d) = accepted[registry[i].id][d])
    /\ [][\A k \in Raws :
            (StoredOf(k) # 0 /\ ~registry[StoredOf(k)].revoked /\ Answers(k))
                => last'.status = 200]_vars

\* C8 witness: the second validation of a day was accepted, count is 2
C8_Witness ==
    /\ Idle
    /\ Accepted("track")
    /\ HasId(registry, last.id)
    /\ CountOn(LastRec, DayOf(last.at)) = 2
    /\ accepted[last.id][DayOf(last.at)] = 2

\* what the document store tells about a day's usage
DocCountOn(d, day) == IF d.usage_last_reset = Some(day) THEN d.usage_today ELSE 0

\* day e lies before today and before the date of every request in flight
Earlier(e) ==
    e < DayOf(now) /\ \A p \in Procs : pc[p] # "idle" => e < DayOf(op[p].at)

AdminAnswers(id) ==
    last' # last /\ last'.name \in {"revoke", "quota"} /\ last'.id = id

\* C10: an unreachable store is told apart from an empty registry: a
\* validation of a credential that is in the stored registry never ends
\* with InvalidCredential, a lifecycle request naming a stored record
\* never ends with NotFound, and no upload drops a stored record.
C10_StoreUnavailableDistinct ==
    [][/\ \A k \in Raws : (StoredOf(k) # 0 /\ Answers(k))
                            => last'.detail # "Invalid API Key."
       /\ \A k \in Raws : (HasId(registry, k) /\ AdminAnswers(k))
                            => last'.status # 404
       /\ \A i \in 1..Len(registry) : HasId(registry', registry[i].id)]_vars

\* C11: the gate fails closed.  A validation whose registry download fails
\* ends at once, not ACCEPTED, and a validation whose upload fails ends
\* not ACCEPTED; neither changes the stored registry or counts as accepted.
C11_FailClosed ==
    [][/\ FailTrack => /\ Idle'
                       /\ last'.name = "track" /\ last'.status # 200
                       /\ registry' = registry /\ accepted' = accepted
       /\ \A p \in Procs : (op[p].name = "track" /\ UploadFails(p))
             => /\ last'.name = "track" /\ last'.status # 200
                /\ registry' = registry /\ accepted' = accepted]_vars

\* C11 witness: the upload of a validation of a stored key failed; the
\* validation was answered 500 and the day's count is still 0
C11_Witness ==
    /\ last.name = "track" /\ last.status = 500
    /\ HasId(registry, last.id)
    /\ CountOn(LastRec, DayOf(last.at)) = 0
    /\ accepted[last.id][DayOf(last.at)] = 0

\* C12: in every reachable stored registry a record has revoked = true
\* if and only if its revoked_at is set.
C12_RevokedAtSet ==
    \A i \in 1..Len(registry) :
        registry[i].revoked <=> registry[i].revoked_at # None

\* revoke request of handler p is answered in this step
RevokeEnds(p) == pc[p] = "upload" /\ op[p].name = "revoke" /\ pc'[p] = "idle"

\* C13: revoke is idempotent.  Every revoke of an existing record succeeds
\* and leaves the record revoked; a revoke of a record that is already
\* revoked leaves every field of every record as it was.
C13_RevokeIdempotent ==
    [][\A p \in Procs : RevokeEnds(p) =>
          /\ last'.name = "revoke" /\ last'.status = 200
          /\ \A j \in 1..Len(registry') :
                registry'[j].id = op[p].id => registry'[j].revoked
          /\ (\E i \in 1..Len(registry) :
                registry[i].id = op[p].id /\ registry[i].revoked)
                => registry' = registry]_vars

\* C13 witness: a revoke of the record was answered 200, the record is
\* stored revoked, and a second revoke of it is about to upload its list
C13_Witness ==
    \E p \in Procs :
        /\ pc[p] = "upload" /\ op[p].name = "revoke"
        /\ last.name = "revoke" /\ last.status = 200 /\ last.id = op[p].id
        /\ \E i \in 1..Len(registry) :
              registry[i].id = op[p].id /\ registry[i].revoked

\* C14: revoke answers NotFound (404) exactly when the stored registry
\* holds no record with that id, and then writes nothing; when it
\* succeeds only the records with that id change.
C14_RevokeNotFound ==
    [][(last' # last /\ last'.name = "revoke") =>
          /\ last'.status = 404 <=> ~HasId(registry, last'.id)
          /\ last'.status = 404 => registry' = registry
          /\ last'.status = 200 =>
                /\ Len(registry') = Len(registry)
                /\ \A i \in 1..Len(registry) :
                      registry[i].id # last'.id => registry'[i] = registry[i]]_vars

\* C15: quota_per_day of every stored record is a positive integer in
\* every reachable state (updateQuota rejects values <= 0).
C15_QuotaPositive ==
    \A i \in 1..Len(registry) : registry[i].quota_per_day >= 1

\* C16: a validation with an absent (or empty) credential is answered 401
\* "Missing API Key" in the handler's first step (it is idle before and
\* after), whether or not the store can be reached, and neither store nor
\* the accepted tally changes.
C16_MissingCredential ==
    [][(last' # last /\ last'.name \in {"track", "verify"} /\ last'.cred = None)
          => /\ last'.status = 401 /\ last'.detail = "Missing API Key"
             /\ pc' = pc
             /\ registry' = registry /\ docs' = docs
             /\ accepted' = accepted]_vars

\* C16 witness: a registry is stored and a validation without credential
\* was answered 401
C16_Witness ==
    /\ last.name = "track" /\ last.cred = None /\ last.status = 401
    /\ Len(registry) > 0

\* no stored record carries the fingerprint of credential k
Unmatched(k) ==
    \A i \in 1..Len(registry) : registry[i].api_key_hash # hash_api_key(k)

\* C17: a validation with a credential whose fingerprint matches no record
\* of the registry it downloads never passes the gate: it is answered in
\* that step with 403 "Invalid API Key." and leaves the registry (usage,
\* last_used_at) and the accepted tally unchanged.
C17_InvalidCredential ==
    [][\A k \in 0..MaxKeys : Unmatched(k) =>
          /\ ~Passes(k)
          /\ (pc' = pc /\ last' # last /\ last'.name = "track"
                       /\ last'.cred = Some(k))
                => /\ last'.status = 403 /\ last'.detail = "Invalid API Key."
                   /\ registry' = registry
                   /\ accepted' = accepted]_vars

\* C17 witness: with a record stored, a credential that was never issued
\* was answered 403 "Invalid API Key."
C17_Witness ==
    /\ last.name = "track" /\ last.cred = Some(0)
    /\ last.status = 403 /\ last.detail = "Invalid API Key."
    /\ Len(registry) > 0
    /\ Unmatched(0)

\* the stored records with the fingerprint of k that are not revoked
ActiveMatches(k) ==
    {i \in 1..Len(registry) :
        registry[i].api_key_hash = hash_api_key(k) /\ ~registry[i].revoked}
\* several stored records carry the fingerprint of k, exactly one not revoked
Collides(k) ==
    /\ Cardinality(ActiveMatches(k)) = 1
    /\ \E i \in 1..Len(registry) :
          registry[i].api_key_hash = hash_api_key(k) /\ registry[i].revoked

\* C18: when several stored records carry one fingerprint and exactly one
\* of them is not revoked, a validation resolves to that record and is
\* validated against it, wherever the revoked records sit.
C18_FirstActiveMatch ==
    [][\A k \in Raws : (Collides(k) /\ Answers(k)) =>
          /\ last'.status = 200
          /\ \A i \in ActiveMatches(k) : last'.id = registry[i].id]_vars

\* C19: in every reachable state at most one non-revoked (active) record
\* carries a given fingerprint or key value, on the blob registry and in
\* the api_keys collection (custom_key_value included).
C19_UniqueActiveKey ==
    /\ \A i, j \in 1..Len(registry) :
          (i # j /\ ~registry[i].revoked /\ ~registry[j].revoked)
              => registry[i].api_key_hash # registry[j].api_key_hash
    /\ \A i, j \in KeyIds :
          (i # j /\ keys[i] # None /\ keys[j] # None
                 /\ TheVal(keys[i]).is_active /\ TheVal(keys[j]).is_active)
              => TheVal(keys[i]).key # TheVal(keys[j]).key

\* C20: cached path.  Once an admin operation has returned, a validation
\* answered from the cache returns the stored record of the credential:
\* that document is active, carries the credential and has the returned
\* rate_limit_day (no pre-change record is served).
C20_CacheInvalidated ==
    [][(Idle /\ last' # last /\ last'.name = "mverify" /\ last'.status = 200
             /\ last'.cred # Some(MASTER_API_KEY))
          => LET r == TheVal(ret')
             IN /\ keys[r.key_id] # None
                /\ TheVal(keys[r.key_id]).key = TheVal(last'.cred)
                /\ TheVal(keys[r.key_id]).is_active
                /\ TheVal(keys[r.key_id]).rate_limit_day = r.rate_limit_day]_vars

\* credential v was replaced by a regenerate that has returned: it was
\* issued, no document carries it any more, and no regenerate that read it
\* is still about to clear its cache entry
Replaced(v) ==
    /\ \E n \in 1..(nextKey - 1) : v = Token(n)
    /\ \A i \in KeyIds : keys[i] # None => TheVal(keys[i]).key # v
    /\ \A p \in Procs : pc[p] = "mclear" => TheVal(data[p]).doc.key # v

\* C21: regenerate writes a new credential to the document and keeps its
\* id and settings, and once it has returned no validation that starts
\* with the old credential is ACCEPTED.
C21_OldKeyRejected ==
    [][/\ \A p \in Procs : (pc[p] = "mregen" /\ pc'[p] = "mclear") =>
             /\ \A i \in KeyIds : i # op[p].id => keys'[i] = keys[i]
             /\ keys'[op[p].id] =
                   Some([TheVal(keys[op[p].id]) EXCEPT !.key = TheVal(op'[p].cred)])
       /\ \A v \in KeyVals :
             (Replaced(v) /\ pc' = pc /\ last' # last /\ last'.name = "mverify"
                          /\ last'.cred = Some(v))
                 => last'.status # 200]_vars

\* C22: a validation presenting the master key is ACCEPTED with the
\* synthetic admin record in the handler's first step, whatever the cache
\* and the collection hold, and changes no key record, usage counter or
\* cache entry.
C22_MasterBypass ==
    [][(last' # last /\ last'.name = "mverify" /\ last'.cred = Some(MASTER_API_KEY))
          => /\ pc' = pc
             /\ last'.status = 200
             /\ ret' = Some(MasterRecord)
             /\ keys' = keys /\ cache' = cache
             /\ registry' = registry /\ docs' = docs /\ accepted' = accepted]_vars

\* C22 witness: an active document carries the value of the master key,
\* and a validation with the master key returned the synthetic record
C22_Witness ==
    /\ last.name = "mverify" /\ last.cred = Some(MASTER_API_KEY)
    /\ last.status = 200
    /\ ret = Some(MasterRecord)
    /\ \E i \in KeyIds : /\ keys[i] # None
                         /\ TheVal(keys[i]).key = MASTER_API_KEY
                         /\ TheVal(keys[i]).is_active

\* C23: at rest only fingerprints are stored.  Every stored blob record
\* carries the fingerprint of a credential, no document of the api_keys
\* collection has a credential in a field, and no cache entry is keyed by
\* or contains a credential.
C23_OnlyFingerprintAtRest ==
    /\ \A i \in 1..Len(registry) :
          \E k \in Raws : registry[i].api_key_hash = hash_api_key(k)
    /\ \A i \in KeyIds : keys[i] # None => TheVal(keys[i]).key \notin KeyVals
    /\ \A v \in KeyVals : cache[v] = None

C26_CounterMonotonic ==
    [][/\ \A p \in Procs : Persists(p) =>
             \A i \in 1..Len(registry), j \in 1..Len(registry'), d \in Days :
                 registry'[j].id = registry[i].id
                     => CountOn(registry'[j], d) >= CountOn(registry[i], d)
       /\ \A k \in DOMAIN docs :
             docs'[k].usage_last_reset = docs[k].usage_last_reset
                 => docs'[k].usage_today >= docs[k].usage_today]_vars

\* the stored record of credential k is not revoked and its expires_at
\* cannot be parsed or compared as a timestamp
Malformed(k) ==
    /\ StoredOf(k) # 0
    /\ ~registry[StoredOf(k)].revoked
    /\ registry[StoredOf(k)].expires_at.kind \in {"bad", "naive"}

\* C27: a malformed expires_at never makes validation fail: the key is
\* treated as having no expiry, the validation is accepted and persists
\* the day's count plus one, as for a key without expires_at.
C27_MalformedExpiryIgnored ==
    [][\A k \in Raws : (Malformed(k) /\ Answers(k)) =>
          /\ last'.status = 200
          /\ Len(registry') = Len(registry)
          /\ registry'[StoredOf(k)].expires_at = registry[StoredOf(k)].expires_at
          /\ CountOn(registry'[StoredOf(k)], DayOf(last'.at))
                = CountOn(registry[StoredOf(k)], DayOf(last'.at)) + 1
          /\ registry'[StoredOf(k)].last_used_at = Some(last'.at)]_vars

\* C27 witness: a key whose expires_at is no timestamp was validated and
\* accepted
C27_Witness ==
    /\ Idle
    /\ Accepted("track") /\ HasId(registry, last.id)
    /\ LastRec.expires_at.kind = "bad"
    /\ CountOn(LastRec, DayOf(last.at)) >= 1

\* C28: after every ACCEPTED validation taken sequentially the resolved
\* record's stored last_used_at and daily_usage[today].last_used equal
\* the time of that validation; no REJECTED validation changes
\* last_used_at.
C28_LastUsedAt ==
    [][/\ (last' # last /\ last'.name = "track") =>
             IF last'.status = 200
             THEN /\ \E j \in 1..Len(registry') : registry'[j].id = last'.id
                  /\ \A j \in 1..Len(registry') : registry'[j].id = last'.id =>
                        /\ registry'[j].last_used_at = Some(last'.at)
                        /\ registry'[j].daily_usage[DayOf(last'.at)] # None
                        /\ TheVal(registry'[j].daily_usage[DayOf(last'.at)]).last_used
                              = Some(last'.at)
             ELSE registry' = registry
       /\ (last' # last /\ last'.name = "verify") =>
             IF last'.status = 200
             THEN docs'[last'.id].last_used_at = Some(now)
             ELSE \A k \in DOMAIN docs : docs'[k].last_used_at = docs[k].last_used_at]_vars

\* C28 witness: a key used on an earlier day was validated again and
\* accepted at a later time, which is the stored last_used_at
C28_Witness ==
    /\ Idle
    /\ Accepted("track") /\ HasId(registry, last.id)
    /\ last.at = 1
    /\ LastRec.daily_usage[0] # None
    /\ LastRec.last_used_at = Some(1)

\* C29: the output of the list operation contains, for every stored
\* record, neither the raw credential nor the fingerprint.
C29_ListOmitsCredential ==
    (last.name = "mlist" /\ last.status = 200 /\ ret # None) =>
        \A r \in TheVal(ret).items :
            /\ "key" \notin DOMAIN r
            /\ "api_key_hash" \notin DOMAIN r

\* C30: a validation changes usage fields only: between the stored
\* registry just before and just after its write-back, only daily_usage
\* and last_used_at of the resolved record differ; every other field and
\* every other record, including what admin operations stored while the
\* validation was in flight, is unchanged.
C30_UsageFieldsOnly ==
    [][\A p \in Procs : Persists(p) =>
          /\ Len(registry') = Len(registry)
          /\ \A i \in 1..Len(registry) :
                IF registry[i].id = op[p].id
                THEN registry'[i] =
                        [registry[i] EXCEPT !.daily_usage = registry'[i].daily_usage,
                                            !.last_used_at = registry'[i].last_used_at]
                ELSE registry'[i] = registry[i]]_vars

\* C31: on the blob registry a record is never lost: a record that is
\* stored (create has returned it) has its id in every later stored
\* registry, under any interleaving of creates and validations, a failed
\* download included.
C31_NoRecordLost ==
    [][\A i \in 1..Len(registry) : HasId(registry', registry[i].id)]_vars

\* credential v was issued, no active document carries it, and every
\* revocation or deletion of a document that carried it has returned
RevokeReturned(v) ==
    /\ \E n \in 1..(nextKey - 1) : v = Token(n)
    /\ \A i \in KeyIds : keys[i] # None =>
          (TheVal(keys[i]).key = v => ~TheVal(keys[i]).is_active)
    /\ \A p \in Procs : pc[p] \in {"mupdate", "mdelete", "mclear"}
                             => TheVal(data[p]).doc.key # v

\* C32: cached path, concurrent handlers.  Once update_api_key with
\* is_active = false, or delete_api_key, has returned, no validation that
\* starts afterwards is ACCEPTED for that credential, whatever validations
\* were in flight during the revocation.
C32_RevocationEffective ==
    [][\A v \in KeyVals :
          (/\ RevokeReturned(v)
           /\ pc' = pc
           /\ last' # last /\ last'.name = "mverify" /\ last'.cred = Some(v))
          => last'.status # 200]_vars

\* updateQuota on an existing id: the list to upload is the registry with
\* quota_per_day = q on the records of that id, and the upload stores it
\* and answers success
QuotaSets ==
    /\ \A p \in Procs, k \in Ids, q \in 0..MaxQuota :
          (QuotaLoad(p, k, Some(q), TRUE) /\ HasId(registry, k)) =>
              /\ pc'[p] = "upload"
              /\ local'[p] = [i \in 1..Len(registry) |->
                                 IF registry[i].id = k
                                 THEN [registry[i] EXCEPT !.quota_per_day = q]
                                 ELSE registry[i]]
    /\ \A p \in Procs :
          (pc[p] = "upload" /\ op[p].name = "quota" /\ pc'[p] = "idle") =>
              /\ last'.status = 200
              /\ registry' = local[p]

\* updateQuota on an absent id: 404 and no write
QuotaNotFound ==
    \A p \in Procs, k \in Ids, q \in 0..MaxQuota :
        (QuotaLoad(p, k, Some(q), TRUE) /\ ~HasId(registry, k)) =>
            /\ pc'[p] = "idle"
            /\ last'.status = 404
            /\ registry' = registry

\* a validation accepted for a record whose quota was set to q >= 1
\* leaves the day's count within q
QuotaJudged ==
    \A p \in Procs : Persists(p) =>
        \A i \in 1..Len(registry) :
            (/\ registry[i].id = op[p].id
             /\ registry[i].quota_per_day \in 1..MaxQuota
             /\ Len(registry') = Len(registry))
            => CountOn(registry'[i], DayOf(op[p].at)) <= registry[i].quota_per_day

\* C33: requests served one at a time.  updateQuota(id, q) on an existing
\* id sets quota_per_day = q on the record with that id and changes no
\* other field and no other record; on an absent id it answers 404 and
\* does not write the registry; after it succeeds, validations are judged
\* against q.
C33_UpdateQuota ==
    [][QuotaSets /\ QuotaNotFound /\ QuotaJudged]_vars

\* C34: every validation ends ACCEPTED (200) or REJECTED with a status of
\* the fixed mapping: 401 exactly when the credential is missing, 403 for
\* an invalid, revoked or expired one, 429 for the quota, 503 when the
\* store fails; a storage error during a validation is answered 503.
C34_OutcomeMapping ==
    [][/\ (last' # last /\ last'.name \in {"track", "verify", "mverify"}) =>
             /\ last'.status \in {200, 401, 403, 429, 503}
             /\ last'.status = 401 <=> last'.cred = None
       /\ \A p \in Procs : (op[p].name = "track" /\ UploadFails(p))
                                => last'.status = 503]_vars

====
